---- MODULE Spec2Model ----
(***************************************************************************)
(* Reacjilator for Azure Functions (src/HttpTrigger/index.js).             *)
(*                                                                         *)
(* Each inbound webhook request is handled by one invocation of the        *)
(* exported function.  Invocations share nothing but the remote chat       *)
(* thread.  An invocation is suspended at its awaits: the jitter sleep,    *)
(* the conversations.replies call, the translateText call and the          *)
(* chat.postMessage call; the code between two awaits runs atomically.     *)
(*                                                                         *)
(* An emoji name is modelled as the sequence of its hyphen-separated       *)
(* segments: "flag-jp" is <<"flag", "jp">>, "fr" is <<"fr">>, "flag-" is   *)
(* <<"flag", "">>.  Every segment is a (possibly empty) run of \w chars.   *)
(***************************************************************************)
EXTENDS Integers, Sequences, FiniteSets, TLC

VARIABLES thread, pc, req, lang, fetched, translation, calls, delayed,
          res, outcome, sent, after, timer, atFetch, log, rname, rlang

vars == <<thread, pc, req, lang, fetched, translation, calls, delayed,
          res, outcome, sent, after, timer, atFetch, log, rname, rlang>>

hvars == <<thread, pc, req, lang, fetched, translation, calls, delayed,
           res, outcome, sent, after, timer, atFetch, log>>

----------------------------------------------------------------------------
(* Bounds *)

\* number of messages the thread may hold after its first one, initially
MaxReplies == 2

\* longest emoji name, in segments, given to the resolver on its own
MaxSegs == 3

\* Math.random() yields k / RandomSteps for k in 0 .. RandomSteps - 1
RandomSteps == 2

----------------------------------------------------------------------------
(* JavaScript values *)

\* the value undefined (an absent property)
Undefined == "<undefined>"

\* JavaScript truthiness of a string-or-undefined value
Truthy(v) == v # Undefined /\ v # ""

\* the two concurrent invocations of the function app
Handlers == {"h1", "h2"}

----------------------------------------------------------------------------
(* Language resolution: events(), lines 87-104 *)

\* the emoji -> ISO 639-1 table required from ./langcode
langcode == [fr |-> "fr", jp |-> "ja"]

\* langcode[country], undefined for a key the table does not have
LangLookup(country) ==
    IF country \in DOMAIN langcode THEN langcode[country] ELSE Undefined

\* words that end in the letters "flag"
FlagEndingWords == {"flag", "redflag"}

\* reaction.match(/flag-/): "flag-" occurs somewhere in the name, i.e. a
\* segment that is not the last one ends in "flag"
MatchesFlagDash(name) ==
    \E i \in 1..(Len(name) - 1) : name[i] \in FlagEndingWords

\* the negative lookahead (?!flag-\b) fails at the start of segment i: the
\* text there is "flag-" followed by a word character
LookaheadBlocks(name, i) ==
    /\ name[i] = "flag"
    /\ i < Len(name)
    /\ name[i + 1] # ""

\* positions where /(?!flag-\b)\b\w+/ can match: the start of a non-empty
\* segment that the lookahead does not block
WordMatches(name) ==
    {i \in 1..Len(name) : name[i] # "" /\ ~LookaheadBlocks(name, i)}

\* reaction.match(/\b\w+/)[0]: the leftmost word, with no lookahead
FirstWordNoLookahead(name) ==
    LET m == {i \in 1..Len(name) : name[i] # ""}
    IN  name[CHOOSE i \in m : \A j \in m : i <= j]

\* reaction.match(/(?!flag-\b)\b\w+/)[0]: the leftmost match, a whole segment
FirstWord(name) ==
    LET m == WordMatches(name)
    IN  name[CHOOSE i \in m : \A j \in m : i <= j]

\* flags.includes(reaction): the whole name is a key of the table
IsKey(name) == Len(name) = 1 /\ name[1] \in DOMAIN langcode

\* lines 87-104: the language the handler continues with, Undefined when it
\* returns early, "TypeError" when match() yields null
ResolveLang(name) ==
    IF MatchesFlagDash(name)
    THEN IF WordMatches(name) = {} THEN "TypeError"
         ELSE LangLookup(FirstWord(name))
    ELSE IF IsKey(name) THEN LangLookup(name[1]) ELSE Undefined

----------------------------------------------------------------------------
(* The remote services *)

\* ts of the reacted-to message (item.ts) and of a reply the bot posts
ItemTs == "100.1"
ReplyTs == "200.2"

\* the translation provider answers a text and a target language with one
\* fixed translation
Translate(text, l) ==
    IF text = "Hello"
    THEN (IF l = "fr" THEN "Bonjour" ELSE "Konnichiwa")
    ELSE ""

\* one attachment of a thread message; the code reads only its text
Att(t) == [text |-> t]

\* a message of the thread as conversations.replies returns it
Msg(t, tts, st, has, atts) ==
    [text |-> t, ts |-> ItemTs, thread_ts |-> tts, subtype |-> st,
     hasAttachments |-> has, attachments |-> atts]

\* the reacted-to message: with or without text, a thread root or a reply
FirstMessages ==
    {Msg(t, tts, Undefined, FALSE, <<>>) :
        t \in {"Hello", "", Undefined}, tts \in {Undefined, "90.0"}}

\* what else a thread holds: a user's reply, an earlier translation post,
\* a message with a subtype and no attachments (a join or broadcast notice)
OtherMessages ==
    { Msg("merci", ItemTs, Undefined, FALSE, <<>>),
      Msg("", ItemTs, "bot_message", TRUE, <<Att("Bonjour")>>),
      Msg("joined", ItemTs, "channel_join", FALSE, <<>>) }

RECURSIVE SeqsUpTo(_, _)
\* all sequences over S of length at most n
SeqsUpTo(S, n) ==
    IF n = 0 THEN {<<>>}
    ELSE LET shorter == SeqsUpTo(S, n - 1)
         IN  shorter \cup {Append(s, x) : s \in {t \in shorter : Len(t) = n - 1}, x \in S}

\* the message chat.postMessage adds to the thread for the arguments args
PostedMsg(args) ==
    [text |-> "", ts |-> ReplyTs, thread_ts |-> args.thread_ts,
     subtype |-> "bot_message", hasAttachments |-> TRUE,
     attachments |-> <<Att(args.attachments[1].text)>>]

----------------------------------------------------------------------------
(* Inbound requests *)

\* emoji names the webhook delivers
Reactions ==
    { <<"fr">>, <<"flag", "fr">>, <<"flag", "jp">>, <<"thumbsup">>,
      <<"flag", "zz">>, <<"fr", "flag", "zz">> }

NoEvent == [type |-> Undefined, itemType |-> Undefined, reaction |-> <<>>]

\* req.body.event of an event_callback
Events ==
    [type : {"reaction_added"}, itemType : {"message"}, reaction : Reactions]
    \cup { [type |-> "reaction_removed", itemType |-> "message", reaction |-> <<"fr">>],
           [type |-> "reaction_added", itemType |-> "file", reaction |-> <<"fr">>] }

\* req: body.type, body.challenge, body.event and whether the signature of
\* the request verifies
Requests ==
    { [type |-> "url_verification", challenge |-> c, verified |-> v, event |-> NoEvent] :
        c \in {"c1", "c2"}, v \in BOOLEAN }
    \cup { [type |-> "app_rate_limited", challenge |-> Undefined, verified |-> v, event |-> NoEvent] :
             v \in BOOLEAN }
    \cup { [type |-> "event_callback", challenge |-> Undefined, verified |-> FALSE, event |-> e] :
             e \in {[type |-> "reaction_added", itemType |-> "message", reaction |-> <<"fr">>]} }
    \cup { [type |-> "event_callback", challenge |-> Undefined, verified |-> TRUE, event |-> e] :
             e \in Events }

NoReq == [type |-> Undefined, challenge |-> Undefined, verified |-> FALSE, event |-> NoEvent]

\* context.res while the function has not assigned it
NoRes == [status |-> Undefined, kind |-> "unset", value |-> Undefined]
\* context.res = {status: 404, body: "bad request"}
BadRequest == [status |-> "404", kind |-> "string", value |-> "bad request"]
\* context.res = {body: {challenge: c}}; no status is set
ChallengeRes(c) == [status |-> Undefined, kind |-> "challenge", value |-> c]
\* context.res = {body: result}, where events() always returns undefined
ResultRes == [status |-> Undefined, kind |-> "result", value |-> Undefined]

NoFetch == [defined |-> FALSE, list |-> <<>>]
NoArgs == [thread_ts |-> Undefined, attachments |-> <<>>]
NoCalls == [fetch |-> 0, translate |-> 0, post |-> 0]

----------------------------------------------------------------------------
(* Pure parts of the pipeline *)

\* limit of the conversations.replies request
Limit == 1

\* the messages a conversations.replies answer carries, for each way the
\* platform may answer: the whole thread, or no more than Limit messages
FetchAnswer(mode, th) ==
    CASE mode = "full"  -> [defined |-> TRUE, list |-> th]
      [] mode = "limit" -> [defined |-> TRUE, list |-> SubSeq(th, 1, Limit)]
      [] mode = "empty" -> [defined |-> TRUE, list |-> <<>>]
      [] OTHER          -> [defined |-> FALSE, list |-> <<>>]

FetchModes == {"error", "nomessages", "empty", "limit", "full"}

\* messageInTheThread.subtype && messageInTheThread.attachments[0].text === translation;
\* "TypeError" when attachments is undefined or empty
SubtypeAndSameText(m, t) ==
    IF ~Truthy(m.subtype) THEN "false"
    ELSE IF ~m.hasAttachments \/ Len(m.attachments) = 0 THEN "TypeError"
    ELSE IF m.attachments[1].text = t THEN "true" ELSE "false"

RECURSIVE ScanThread(_, _, _, _)
\* the forEach of isAlreadyPosted from message i on
ScanThread(messages, t, i, alreadyPosted) ==
    IF i > Len(messages) THEN alreadyPosted
    ELSE IF alreadyPosted = "true" THEN ScanThread(messages, t, i + 1, "true")
    ELSE LET r == SubtypeAndSameText(messages[i], t)
         IN  IF r = "TypeError" THEN "TypeError"
             ELSE ScanThread(messages, t, i + 1, r)

\* isAlreadyPosted looking at the newest message of the thread only
isAlreadyPostedNewestOnly(messages, t) ==
    LET r == ScanThread(messages, t, Len(messages), "false")
    IN  IF r = "false" THEN "undefined" ELSE r

\* isAlreadyPosted: "true", "undefined" (no return value) or "TypeError"
isAlreadyPosted(messages, t) ==
    LET r == ScanThread(messages, t, 1, "false")
    IN  IF r = "false" THEN "undefined" ELSE r

\* the fixed notice of the branch for a message without text
NotSupported == [pretext |-> <<"not_supported">>, text |-> Undefined, footer |-> Undefined]

\* the attachment without the branch on message.text
AttachmentNoBranch(message, t, l, emoji) ==
    [pretext |-> <<"translated", emoji, l>>, text |-> t, footer |-> message.text]

\* the attachment postMessage builds
Attachment(message, t, l, emoji) ==
    IF Truthy(message.text)
    THEN [pretext |-> <<"translated", emoji, l>>, text |-> t, footer |-> message.text]
    ELSE NotSupported

\* the arguments with the reply anchored at the message itself
PostArgsOwnTs(message, t, l, emoji) ==
    [thread_ts |-> message.ts,
     attachments |-> <<Attachment(message, t, l, emoji)>>]

\* the arguments of the chat.postMessage call
PostArgs(message, t, l, emoji) ==
    [thread_ts |-> IF Truthy(message.thread_ts) THEN message.thread_ts ELSE message.ts,
     attachments |-> <<Attachment(message, t, l, emoji)>>]

----------------------------------------------------------------------------
(* The exported function, lines 37-71 *)

\* the switch without the signature check
RouteUnverified(r) ==
    CASE r.type = "url_verification" -> "challenge"
      [] r.type = "event_callback" -> "events"
      [] OTHER -> "bad request"

\* the branch the switch on req.body.type takes
Route(r) ==
    CASE r.type = "url_verification" -> "challenge"
      [] r.type = "event_callback" ->
            IF ~r.verified THEN "bad request" ELSE "events"
      [] OTHER -> "bad request"

\* events() without the test of item.type
EventsEntryAnyItem(e) ==
    IF e.type # "reaction_added" THEN "return"
    ELSE IF ResolveLang(e.reaction) = "TypeError" THEN "throw"
    ELSE IF ~Truthy(ResolveLang(e.reaction)) THEN "return"
    ELSE "sleep"

\* events() up to its first await: "return" for an early return, "throw",
\* or "sleep" when the handler goes on to the delay
EventsEntry(e) ==
    IF e.type # "reaction_added" THEN "return"
    ELSE IF e.itemType # "message" THEN "return"
    ELSE IF ResolveLang(e.reaction) = "TypeError" THEN "throw"
    ELSE IF ~Truthy(ResolveLang(e.reaction)) THEN "return"
    ELSE "sleep"

\* the invocation ends: context.res is r, or stays unset when an exception
\* leaves the function
Finish(h, o, r) ==
    /\ pc' = [pc EXCEPT ![h] = "done"]
    /\ outcome' = [outcome EXCEPT ![h] = o]
    /\ res' = [res EXCEPT ![h] = r]

\* handler h goes through the steps es: each a pair of what happens (an
\* external call, its answer, the duplicate check, a context.log of an
\* error) and a detail
Logged(h, es) == log' = [log EXCEPT ![h] = @ \o es]

\* upper end of the delay in ms, line 108
JitterMs == 5000

\* the values Math.random() takes, as numerators over RandomSteps
Randoms == 0..(RandomSteps - 1)

\* Math.random() * 5000 for the random value k / RandomSteps, in whole ms
Delay(k) == (k * JitterMs) \div RandomSteps

\* no setTimeout is pending
NoTimer == -1

\* a request arrives and runs to the first await; k is the random value
\* the delay is drawn with
Receive(h, r, k) ==
    /\ pc[h] = "idle"
    /\ req' = [req EXCEPT ![h] = r]
    /\ after' = [after EXCEPT ![h] = {g \in Handlers : pc[g] = "done"}]
    /\ CASE Route(r) = "challenge" ->
              /\ Finish(h, "challenge", ChallengeRes(r.challenge))
              /\ UNCHANGED <<lang, timer, log>>
         [] Route(r) = "bad request" ->
              /\ Finish(h, "rejected", BadRequest)
              /\ UNCHANGED <<lang, timer, log>>
         [] OTHER ->
              CASE EventsEntry(r.event) = "return" ->
                     /\ Finish(h, "ignored", ResultRes)
                     /\ UNCHANGED <<lang, timer, log>>
                [] EventsEntry(r.event) = "throw" ->
                     /\ Finish(h, "threw", NoRes)
                     /\ UNCHANGED <<lang, timer, log>>
                [] OTHER ->
                     /\ lang' = [lang EXCEPT ![h] = ResolveLang(r.event.reaction)]
                     /\ timer' = [timer EXCEPT ![h] = Delay(k)]
                     /\ Logged(h, << <<"sleep", "">> >>)
                     /\ pc' = [pc EXCEPT ![h] = "sleep"]
                     /\ UNCHANGED <<outcome, res>>
    /\ UNCHANGED <<thread, fetched, translation, calls, delayed, sent, atFetch, rname, rlang>>

\* a sleep that arms its timer again each time it fires
WakeRearmsTimer(h) ==
    /\ pc[h] = "sleep"
    /\ timer' = [timer EXCEPT ![h] = IF @ = Delay(0) THEN Delay(1) ELSE Delay(0)]
    /\ UNCHANGED <<thread, pc, req, lang, fetched, translation, calls, delayed, res,
                   outcome, sent, after, atFetch, log, rname, rlang>>

\* the sleep of lines 107-109 ends and getMessage sends its request
Wake(h) ==
    /\ pc[h] = "sleep"
    /\ delayed' = [delayed EXCEPT ![h] = TRUE]
    /\ timer' = [timer EXCEPT ![h] = NoTimer]
    /\ calls' = [calls EXCEPT ![h].fetch = @ + 1]
    /\ Logged(h, << <<"wake", "">>, <<"fetch", "">> >>)
    /\ pc' = [pc EXCEPT ![h] = "fetch"]
    /\ UNCHANGED <<thread, req, lang, fetched, translation, res, outcome, sent, after,
                   atFetch, rname, rlang>>

\* postTranslatedMessage leaving the try before translateText when the
\* message has no text
PostTranslatedEntryNeedsText(f) ==
    IF ~f.defined THEN "throw"
    ELSE IF Len(f.list) = 0 THEN "caught"
    ELSE IF ~Truthy(f.list[1].text) THEN "caught"
    ELSE "translate"

\* postTranslatedMessage up to its await, for the fetched messages f:
\* "throw" (messages[0] of undefined, outside the try), "caught"
\* (message.text of undefined, inside the try) or "translate"
PostTranslatedEntry(f) ==
    IF ~f.defined THEN "throw"
    ELSE IF Len(f.list) = 0 THEN "caught"
    ELSE "translate"

\* conversations.replies answers; the handler goes on to translateText
FetchReturn(h, mode) ==
    /\ pc[h] = "fetch"
    /\ atFetch' = [atFetch EXCEPT ![h] = thread]
    /\ IF mode = "error"
       THEN /\ Finish(h, "threw", NoRes)
            /\ Logged(h, << <<"fetched", mode>> >>)
            /\ UNCHANGED <<fetched, calls>>
       ELSE LET f == FetchAnswer(mode, thread) IN
            /\ fetched' = [fetched EXCEPT ![h] = f]
            /\ CASE PostTranslatedEntry(f) = "throw" ->
                      /\ Finish(h, "threw", NoRes)
                      /\ Logged(h, << <<"fetched", mode>> >>)
                      /\ UNCHANGED calls
                 [] PostTranslatedEntry(f) = "caught" ->
                      /\ Finish(h, "aborted", ResultRes)
                      /\ Logged(h, << <<"fetched", mode>>, <<"log", "error">> >>)
                      /\ UNCHANGED calls
                 [] OTHER ->
                      /\ calls' = [calls EXCEPT ![h].translate = @ + 1]
                      /\ Logged(h, << <<"fetched", mode>>, <<"translate", lang[h]>> >>)
                      /\ pc' = [pc EXCEPT ![h] = "translate"]
                      /\ UNCHANGED <<outcome, res>>
    /\ UNCHANGED <<thread, req, lang, translation, delayed, sent, after, timer, rname, rlang>>

TranslateAnswers == {"error", "notranslations", "ok"}

\* a translateText call outside the try: the rejection leaves the function
OnTranslateAnswerUncaught(answer) ==
    CASE answer = "ok" -> "continue"
      [] answer = "error" -> "throw"
      [] OTHER -> "caught"

\* what the try of lines 147-164 makes of the answer of translateText: a
\* rejection, or a TypeError on response.translations[0], is "caught"
OnTranslateAnswer(answer) ==
    IF answer = "ok" THEN "continue" ELSE "caught"

\* lines 159-161 posting whatever isAlreadyPosted returns
AfterTranslationUnguarded(messages, t) ==
    CASE isAlreadyPosted(messages, t) = "TypeError" -> "caught"
      [] OTHER -> "post"

\* what lines 159-161 do with the translation t: "caught", "duplicate" or "post"
AfterTranslation(messages, t) ==
    CASE isAlreadyPosted(messages, t) = "TypeError" -> "caught"
      [] isAlreadyPosted(messages, t) = "true" -> "duplicate"
      [] OTHER -> "post"

\* translateText answers; the handler checks the thread and posts
TranslateReturn(h, answer) ==
    /\ pc[h] = "translate"
    /\ CASE OnTranslateAnswer(answer) = "caught" ->
              /\ Finish(h, "aborted", ResultRes)
              /\ Logged(h, << <<"translated", answer>>, <<"log", "error">> >>)
              /\ UNCHANGED <<translation, calls, sent>>
         [] OnTranslateAnswer(answer) = "throw" ->
              /\ Finish(h, "threw", NoRes)
              /\ Logged(h, << <<"translated", answer>> >>)
              /\ UNCHANGED <<translation, calls, sent>>
         [] OTHER ->
              LET message == fetched[h].list[1]
                  t == Translate(message.text, lang[h])
                  checked == << <<"translated", answer>>,
                                <<"check", isAlreadyPosted(fetched[h].list, t)>> >>
              IN  /\ translation' = [translation EXCEPT ![h] = t]
                  /\ CASE AfterTranslation(fetched[h].list, t) = "caught" ->
                            /\ Finish(h, "aborted", ResultRes)
                            /\ Logged(h, checked \o << <<"log", "error">> >>)
                            /\ UNCHANGED <<calls, sent>>
                       [] AfterTranslation(fetched[h].list, t) = "duplicate" ->
                            /\ Finish(h, "duplicate", ResultRes)
                            /\ Logged(h, checked)
                            /\ UNCHANGED <<calls, sent>>
                       [] OTHER ->
                            /\ sent' = [sent EXCEPT ![h] =
                                  PostArgs(message, t, lang[h], req[h].event.reaction)]
                            /\ calls' = [calls EXCEPT ![h].post = @ + 1]
                            /\ Logged(h, checked \o << <<"post", "">> >>)
                            /\ pc' = [pc EXCEPT ![h] = "post"]
                            /\ UNCHANGED <<outcome, res>>
    /\ UNCHANGED <<thread, req, lang, fetched, delayed, after, timer, atFetch, rname, rlang>>

\* a postMessage that is not awaited inside the try: the rejection escapes
OnPostAnswerUncaught(ok) ==
    IF ok THEN "logged" ELSE "throw"

\* what becomes of the answer of chat.postMessage: the response is "logged"
\* (line 217), a rejection is "caught" by the catch of line 162
OnPostAnswer(ok) ==
    IF ok THEN "logged" ELSE "caught"

\* chat.postMessage answers: the reply is in the thread, or the call failed
\* and the catch of postTranslatedMessage logs the error
PostReturn(h, ok) ==
    /\ pc[h] = "post"
    /\ CASE OnPostAnswer(ok) = "logged" ->
              /\ thread' = Append(thread, PostedMsg(sent[h]))
              /\ Finish(h, "posted", ResultRes)
              /\ Logged(h, << <<"posted", "ok">>, <<"log", "response">> >>)
         [] OnPostAnswer(ok) = "caught" ->
              /\ UNCHANGED thread
              /\ Finish(h, "postfailed", ResultRes)
              /\ Logged(h, << <<"posted", "failed">>, <<"log", "error">> >>)
         [] OTHER ->
              /\ UNCHANGED thread
              /\ Finish(h, "threw", NoRes)
              /\ Logged(h, << <<"posted", "failed">> >>)
    /\ UNCHANGED <<req, lang, fetched, translation, calls, delayed, sent, after, timer,
                   atFetch, rname, rlang>>

----------------------------------------------------------------------------
(* Specification of the function app *)

Threads ==
    {<<first>> \o rest : first \in FirstMessages,
                         rest \in SeqsUpTo(OtherMessages, MaxReplies)}

Init ==
    /\ thread \in Threads
    /\ pc = [h \in Handlers |-> "idle"]
    /\ req = [h \in Handlers |-> NoReq]
    /\ lang = [h \in Handlers |-> Undefined]
    /\ fetched = [h \in Handlers |-> NoFetch]
    /\ translation = [h \in Handlers |-> Undefined]
    /\ calls = [h \in Handlers |-> NoCalls]
    /\ delayed = [h \in Handlers |-> FALSE]
    /\ res = [h \in Handlers |-> NoRes]
    /\ outcome = [h \in Handlers |-> "none"]
    /\ sent = [h \in Handlers |-> NoArgs]
    /\ after = [h \in Handlers |-> {}]
    /\ timer = [h \in Handlers |-> NoTimer]
    /\ atFetch = [h \in Handlers |-> <<>>]
    /\ log = [h \in Handlers |-> <<>>]
    /\ rname = <<>>
    /\ rlang = Undefined

Next ==
    \/ \E h \in Handlers, r \in Requests, k \in Randoms : Receive(h, r, k)
    \/ \E h \in Handlers : Wake(h)
    \/ \E h \in Handlers, mode \in FetchModes : FetchReturn(h, mode)
    \/ \E h \in Handlers, answer \in TranslateAnswers : TranslateReturn(h, answer)
    \/ \E h \in Handlers, ok \in BOOLEAN : PostReturn(h, ok)

Spec == Init /\ [][Next]_vars

\* the timer fires and every remote call is answered, with success or failure
Fairness ==
    \A h \in Handlers :
        /\ WF_vars(Wake(h))
        /\ WF_vars(\E mode \in FetchModes : FetchReturn(h, mode))
        /\ WF_vars(\E answer \in TranslateAnswers : TranslateReturn(h, answer))
        /\ WF_vars(\E ok \in BOOLEAN : PostReturn(h, ok))

\* the function app on a thread of one message or of a message and a reply
InitFair == Init /\ Len(thread) <= 2

SpecFair == InitFair /\ [][Next]_vars /\ Fairness

----------------------------------------------------------------------------
(* Specification of the language resolution on its own *)

\* words an emoji name is made of
Words == {"", "flag", "redflag", "fr", "jp", "zz"}

Names == SeqsUpTo(Words, MaxSegs) \ {<<>>}

InitResolver ==
    /\ rname \in Names
    /\ rlang = "pending"
    /\ thread = <<>>
    /\ pc = [h \in Handlers |-> "idle"]
    /\ req = [h \in Handlers |-> NoReq]
    /\ lang = [h \in Handlers |-> Undefined]
    /\ fetched = [h \in Handlers |-> NoFetch]
    /\ translation = [h \in Handlers |-> Undefined]
    /\ calls = [h \in Handlers |-> NoCalls]
    /\ delayed = [h \in Handlers |-> FALSE]
    /\ res = [h \in Handlers |-> NoRes]
    /\ outcome = [h \in Handlers |-> "none"]
    /\ sent = [h \in Handlers |-> NoArgs]
    /\ after = [h \in Handlers |-> {}]
    /\ timer = [h \in Handlers |-> NoTimer]
    /\ atFetch = [h \in Handlers |-> <<>>]
    /\ log = [h \in Handlers |-> <<>>]

\* lines 87-104 applied to the name
Resolve ==
    /\ rlang = "pending"
    /\ rlang' = ResolveLang(rname)
    /\ UNCHANGED <<rname, hvars>>

NextResolver == Resolve

SpecResolver == InitResolver /\ [][NextResolver]_vars

----------------------------------------------------------------------------
(* Properties *)

\* the reacted-to message as handler h fetched it
HasMessage(h) == fetched[h].defined /\ Len(fetched[h].list) >= 1
FirstMessage(h) == fetched[h].list[1]

\* message m is a prior translation post of the text t: it carries a subtype
\* and its first attachment's text is t
PriorPost(m, t) ==
    /\ Truthy(m.subtype)
    /\ m.hasAttachments
    /\ Len(m.attachments) >= 1
    /\ m.attachments[1].text = t

\* handler h has its translation and the thread it fetched holds a prior
\* post of it
FetchedPriorPost(h) ==
    /\ HasMessage(h)
    /\ translation[h] # Undefined
    /\ \E i \in 1..Len(fetched[h].list) : PriorPost(fetched[h].list[i], translation[h])

\* C1: whenever the fetched thread contains a message with a subtype whose
\* first attachment's text equals the computed translation, the handler
\* makes no chat.postMessage call, whatever else the thread holds and in
\* whatever order.
C1_DuplicateSuppression ==
    \A h \in Handlers : FetchedPriorPost(h) => calls[h].post = 0

\* a handler stopped as duplicate on a thread where the prior post is
\* neither the only other message nor the newest one
C1_Witness ==
    \E h \in Handlers :
        /\ outcome[h] = "duplicate"
        /\ Len(fetched[h].list) >= 3
        /\ ~PriorPost(fetched[h].list[Len(fetched[h].list)], translation[h])

\* the request of handler h is an event_callback that passed the signature check
Authenticated(h) == req[h].type = "event_callback" /\ req[h].verified

\* handlers h and g handle reactions that resolved to the same language and
\* got the same translation from the provider
SameTranslation(h, g) ==
    /\ lang[h] = lang[g]
    /\ translation[h] # Undefined
    /\ translation[h] = translation[g]

\* the post of handler h succeeded with a reply that carries its translation
PostedTranslation(h) ==
    /\ outcome[h] = "posted"
    /\ sent[h].attachments[1].text = translation[h]

\* the handlings of h and g overlap: neither request arrived after the other
\* handling had ended
Concurrent(h, g) == h # g /\ h \notin after[g] /\ g \notin after[h]

\* C2: for two concurrently handled reaction events on the same message
\* that resolve to the same language and get the same translation, at most
\* one reply carrying that translation is posted, in every interleaving.
C2_AtMostOneReply ==
    \A h, g \in Handlers :
        (Concurrent(h, g) /\ SameTranslation(h, g)) =>
            ~(PostedTranslation(h) /\ PostedTranslation(g))

\* the thread handler g fetched reflects the reply handler h posted
ReflectsReplyOf(g, h) ==
    /\ outcome[h] = "posted"
    /\ HasMessage(g)
    /\ \E i \in 1..Len(fetched[g].list) : fetched[g].list[i] = PostedMsg(sent[h])

\* C3: when the same event is handled twice, the second handling fetching a
\* thread that reflects the reply the first one posted, the two handlings
\* make exactly one chat.postMessage call together.
C3_RedeliveryPostsOnce ==
    \A h, g \in Handlers :
        (/\ h \in after[g]
         /\ pc[g] = "done"
         /\ req[h] = req[g]
         /\ ReflectsReplyOf(g, h))
        => calls[h].post + calls[g].post = 1

\* the reacted-to message, as fetched by h, has empty or absent text
NoText(h) == HasMessage(h) /\ ~Truthy(FirstMessage(h).text)

\* C4 as stated: for a reacted-to message with empty or absent text the
\* handler never calls the translation provider, and the reply it posts is
\* the fixed "not supported" attachment.
C4_Original ==
    \A h \in Handlers :
        NoText(h) =>
            /\ calls[h].translate = 0
            /\ (calls[h].post > 0 => sent[h].attachments = <<NotSupported>>)

\* C4 amended: for a reacted-to message with empty or absent text the
\* handler does send its one translate request, and a reply it posts is
\* always the fixed "not supported" attachment: pretext only, no body text,
\* no footer.
C4_NoTextReply ==
    \A h \in Handlers :
        NoText(h) =>
            /\ calls[h].translate = 1
            /\ (calls[h].post > 0 => sent[h].attachments = <<NotSupported>>)

\* a handler posted the reply for a message without text
C4_Witness ==
    \E h \in Handlers :
        NoText(h) /\ outcome[h] = "posted" /\ sent[h].attachments = <<NotSupported>>

\* C5: for an event_callback that passed authentication no exception leaves
\* the function and the caller gets the success-shaped response, whatever
\* the fetch, the translation, the duplicate check or the post did.
C5_NoEscapingException ==
    \A h \in Handlers :
        (Authenticated(h) /\ pc[h] = "done") =>
            (outcome[h] # "threw" /\ res[h] = ResultRes)

\* the reference resolver: the key of flag-<token> is <token>, any other
\* name is its own key; the language is the table's entry for the key
RefKey(name) ==
    IF Len(name) >= 2 /\ name[1] = "flag" THEN Tail(name) ELSE name
RefResolve(name) ==
    IF Len(RefKey(name)) = 1 THEN LangLookup(RefKey(name)[1]) ELSE Undefined

\* the request of handler h is an authenticated reaction_added on a message
ReactionOnMessage(h) ==
    /\ Authenticated(h)
    /\ req[h].event.type = "reaction_added"
    /\ req[h].event.itemType = "message"

\* C6: for an emoji name that is in the mapping neither directly nor through
\* its flag- token, no language is resolved and the handler makes no network
\* call: no fetch, no translate request, no post.
C6_UnmappedNoCalls ==
    \A h \in Handlers :
        (ReactionOnMessage(h) /\ RefResolve(req[h].event.reaction) = Undefined) =>
            (lang[h] = Undefined /\ calls[h] = NoCalls)

\* C7: the resolution of lines 87-104 agrees with the reference resolver on
\* every emoji name.
C7_ResolveAgrees ==
    rlang # "pending" => rlang = RefResolve(rname)

\* the event of handler h resolved to a language
Resolved(h) == lang[h] # Undefined

\* handler h got a translation and no message of the thread it fetched is a
\* prior post of it
NoPriorPost(h) ==
    /\ HasMessage(h)
    /\ translation[h] # Undefined
    /\ \A i \in 1..Len(fetched[h].list) : ~PriorPost(fetched[h].list[i], translation[h])

\* C8: when the event resolves to a language, the message has text, fetch,
\* translate and post succeed and no fetched message is a prior translation
\* post, the finished handler has made exactly one chat.postMessage call,
\* with the translation as body and the original text as footer, whatever
\* the rest of the thread holds.
C8_PostsTranslation ==
    \A h \in Handlers :
        (/\ pc[h] = "done"
         /\ Resolved(h)
         /\ NoPriorPost(h)
         /\ Truthy(FirstMessage(h).text)
         /\ outcome[h] # "postfailed")
        => /\ calls[h].post = 1
           /\ sent[h].attachments[1].text = translation[h]
           /\ sent[h].attachments[1].footer = FirstMessage(h).text

\* C9 as stated: an event causes at most one translate request and at most
\* one post; an event that passed resolution and was not suppressed as a
\* duplicate has caused exactly one translate request.
C9_Original ==
    \A h \in Handlers :
        /\ calls[h].translate <= 1
        /\ calls[h].post <= 1
        /\ (pc[h] = "done" /\ Resolved(h) /\ outcome[h] # "duplicate") =>
               calls[h].translate = 1

\* C9 amended: an event causes at most one translate request and at most
\* one post; an event that passed resolution, whose thread fetch returned at
\* least one message and that was not suppressed as a duplicate has caused
\* exactly one translate request.
C9_OneTranslateOnePost ==
    \A h \in Handlers :
        /\ calls[h].translate <= 1
        /\ calls[h].post <= 1
        /\ (pc[h] = "done" /\ Resolved(h) /\ HasMessage(h) /\ outcome[h] # "duplicate") =>
               calls[h].translate = 1

\* a handler finished with a post, for a message without text, and another
\* one was stopped by the translation failing
C9_Witness ==
    \E h, g \in Handlers :
        /\ outcome[h] = "posted" /\ NoText(h) /\ calls[h].translate = 1
        /\ outcome[g] = "aborted" /\ HasMessage(g) /\ calls[g].post = 0

\* the request of handler h must be turned away: an event_callback whose
\* signature does not verify, or a type other than the two known ones
Unroutable(h) ==
    \/ req[h].type = "event_callback" /\ ~req[h].verified
    \/ req[h].type \notin {"url_verification", "event_callback", Undefined}

\* C10: an event_callback that fails the authenticity check and a payload
\* of any other type than url_verification and event_callback get status
\* 404 with body "bad request" and never reach events(): no delay, no
\* fetch, translate or post call; a url_verification gets its challenge
\* echoed.
C10_Routing ==
    \A h \in Handlers :
        /\ Unroutable(h) =>
              /\ res[h] = BadRequest
              /\ calls[h] = NoCalls
              /\ ~delayed[h]
              /\ pc[h] = "done"
        /\ req[h].type = "url_verification" =>
              /\ res[h].kind = "challenge"
              /\ res[h].value = req[h].challenge

\* an unverified event_callback, and a url_verification beside it, have
\* been answered
C10_Witness ==
    \E h, g \in Handlers :
        /\ req[h].type = "event_callback" /\ ~req[h].verified /\ res[h] = BadRequest
        /\ req[g].type = "url_verification" /\ res[g] = ChallengeRes(req[g].challenge)

----------------------------------------------------------------------------
(* Order of the steps of one handling *)

\* the steps of handler h of kind k
StepsOf(h, k) == {i \in 1..Len(log[h]) : log[h][i][1] = k}

\* some step <<k, d>> of handler h
HasStep(h, k, d) == \E i \in 1..Len(log[h]) : log[h][i] = <<k, d>>

\* every step of kind k of handler h comes after a step <<k0, d0>>
ComesAfter(h, k, k0, d0) ==
    \A i \in StepsOf(h, k) : \E j \in 1..(i - 1) : log[h][j] = <<k0, d0>>

\* the fetch of handler h returned a message list
FetchReturnedList(h) ==
    \E i \in StepsOf(h, "fetched") : log[h][i][2] \in {"limit", "full"}

\* C11: within one handling the translate request is issued only after the
\* fetch has returned, the duplicate check runs only after the translation
\* has returned, and a post is issued only right after the duplicate check
\* has returned not-duplicate.
C11_StepOrder ==
    \A h \in Handlers :
        /\ ComesAfter(h, "fetched", "fetch", "")
        /\ \A i \in StepsOf(h, "translate") :
               \E j \in 1..(i - 1) : /\ log[h][j][1] = "fetched"
                                     /\ log[h][j][2] \in {"limit", "full"}
        /\ ComesAfter(h, "translated", "translate", lang[h])
        /\ ComesAfter(h, "check", "translated", "ok")
        /\ \A i \in StepsOf(h, "post") :
               i > 1 /\ log[h][i - 1] = <<"check", "undefined">>
        /\ calls[h].translate = Cardinality(StepsOf(h, "translate"))
        /\ calls[h].post = Cardinality(StepsOf(h, "post"))

\* one handler went through all four steps and another one was stopped by
\* the duplicate check
C11_Witness ==
    \E h, g \in Handlers :
        /\ outcome[h] = "posted" /\ HasStep(h, "check", "undefined")
        /\ outcome[g] = "duplicate" /\ HasStep(g, "check", "true")

\* the duplicate check of handler h has returned and decided about the post
PostDecided(h) == StepsOf(h, "check") # {} /\ ~HasStep(h, "check", "TypeError")

\* C12: every post decision is taken on the whole thread as it exists at
\* fetch time: the list handed to isAlreadyPosted is the thread, first
\* message and every reply, not a truncated part of it.
C12_WholeThreadChecked ==
    \A h \in Handlers : PostDecided(h) => fetched[h].list = atFetch[h]

\* the fetch of handler h failed or returned no usable message list
FetchFailed(h) ==
    \E i \in StepsOf(h, "fetched") : log[h][i][2] \in {"error", "nomessages", "empty"}

\* C13: when the fetch fails or returns no usable message list, the failure
\* is logged, nothing is raised, and the handling stops with no translate
\* request and no post.
C13_FetchFailureAborts ==
    \A h \in Handlers :
        FetchFailed(h) =>
            /\ pc[h] = "done"
            /\ outcome[h] # "threw"
            /\ res[h] = ResultRes
            /\ HasStep(h, "log", "error")
            /\ calls[h].translate = 0
            /\ calls[h].post = 0

\* the translate call of handler h failed or returned no translation
TranslateFailed(h) ==
    HasStep(h, "translated", "error") \/ HasStep(h, "translated", "notranslations")

\* C14: when the translate call fails or returns no translation the error
\* is caught and logged inside the handler, no chat.postMessage call is
\* made, and the handling completes normally.
C14_TranslateFailureSilent ==
    \A h \in Handlers :
        TranslateFailed(h) =>
            /\ pc[h] = "done"
            /\ outcome[h] = "aborted"
            /\ res[h] = ResultRes
            /\ log[h][Len(log[h])] = <<"log", "error">>
            /\ calls[h].post = 0

\* both ways the translate call can fail have happened
C14_Witness ==
    \E h, g \in Handlers :
        /\ HasStep(h, "translated", "error") /\ pc[h] = "done"
        /\ HasStep(g, "translated", "notranslations") /\ pc[g] = "done"

\* C15: when the chat.postMessage call fails the error is logged and
\* swallowed: the handling completes normally, exactly one post attempt was
\* made and no external call follows it.
C15_PostFailureSwallowed ==
    \A h \in Handlers :
        HasStep(h, "posted", "failed") =>
            /\ pc[h] = "done"
            /\ outcome[h] = "postfailed"
            /\ res[h] = ResultRes
            /\ calls[h].post = 1
            /\ Cardinality(StepsOf(h, "post")) = 1
            /\ Len(log[h]) >= 2
            /\ log[h][Len(log[h]) - 1] = <<"posted", "failed">>
            /\ log[h][Len(log[h])] = <<"log", "error">>

\* a post failed for a message with text and the handling ended
C15_Witness ==
    \E h \in Handlers :
        /\ outcome[h] = "postfailed"
        /\ Truthy(FirstMessage(h).text)
        /\ calls[h].post = 1

\* the event of handler h is not one to act on: not a reaction_added, not
\* on a message, or its emoji resolves to no language
InvalidEvent(h) ==
    /\ Authenticated(h)
    /\ \/ req[h].event.type # "reaction_added"
       \/ req[h].event.itemType # "message"
       \/ ResolveLang(req[h].event.reaction) = Undefined

\* C16: an event that is not a reaction_added, not on a message, or whose
\* emoji resolves to no language completes with no delay and no network
\* call; for every other event the delay is at least 0 and below 5000 ms
\* and it has ended before the thread fetch is issued.
C16_DelayAfterValidation ==
    \A h \in Handlers :
        /\ InvalidEvent(h) =>
              /\ pc[h] = "done"
              /\ ~delayed[h]
              /\ timer[h] = NoTimer
              /\ calls[h] = NoCalls
              /\ log[h] = <<>>
        /\ pc[h] = "sleep" =>
              /\ timer[h] >= 0 /\ timer[h] < 5000
              /\ calls[h] = NoCalls
        /\ calls[h].fetch > 0 =>
              /\ delayed[h]
              /\ timer[h] = NoTimer
              /\ ComesAfter(h, "fetch", "wake", "")
              /\ ComesAfter(h, "wake", "sleep", "")

\* one event was dropped because of its item type while another one has
\* slept and fetched
C16_Witness ==
    \E h, g \in Handlers :
        /\ Authenticated(h) /\ req[h].event.itemType = "file" /\ pc[h] = "done"
        /\ calls[g].fetch = 1 /\ delayed[g]

\* C17: every reply is anchored at the thread root: thread_ts of the post is
\* the reacted-to message's thread_ts when it has one, its ts otherwise.
C17_ThreadAnchor ==
    \A h \in Handlers :
        calls[h].post > 0 =>
            sent[h].thread_ts =
                IF FirstMessage(h).thread_ts # Undefined
                THEN FirstMessage(h).thread_ts
                ELSE FirstMessage(h).ts

\* a reply to a message that is itself a thread reply was posted
C17_Witness ==
    \E h \in Handlers :
        /\ outcome[h] = "posted"
        /\ FirstMessage(h).thread_ts = "90.0"
        /\ sent[h].thread_ts = "90.0"

\* the events of h and g differ in the emoji name only: h has a direct
\* code, g the flag- emoji of the same code, and the code is in the mapping
DirectAndFlag(h, g) ==
    /\ ReactionOnMessage(h)
    /\ ReactionOnMessage(g)
    /\ Len(req[h].event.reaction) = 1
    /\ req[h].event.reaction[1] \in DOMAIN langcode
    /\ req[g].event.reaction = <<"flag">> \o req[h].event.reaction

\* an answer of a remote service
IsAnswer(e) == e[1] \in {"fetched", "translated", "posted"}

\* h and g got the same thread and the same answers from the services, as
\* far as both asked
SameAnswers(h, g) ==
    /\ (fetched[h].defined /\ fetched[g].defined) => fetched[h] = fetched[g]
    /\ \A i \in 1..Len(log[h]) :
           (i <= Len(log[g]) /\ IsAnswer(log[h][i]) /\ log[g][i][1] = log[h][i][1])
               => log[g][i] = log[h][i]

\* the replies of h and g are anchored alike and have the same body and footer
SameReplyButPretext(h, g) ==
    /\ sent[h].thread_ts = sent[g].thread_ts
    /\ Len(sent[h].attachments) = Len(sent[g].attachments)
    /\ Len(sent[h].attachments) = 1 =>
           /\ sent[h].attachments[1].text = sent[g].attachments[1].text
           /\ sent[h].attachments[1].footer = sent[g].attachments[1].footer

\* C18 as stated: a direct code and a flag- emoji of the same language make
\* the same sequence of calls with the same target language, take the same
\* post decision and post the same reply.
C18_Original ==
    \A h, g \in Handlers :
        (DirectAndFlag(h, g) /\ pc[h] = "done" /\ pc[g] = "done" /\ SameAnswers(h, g))
        => /\ log[h] = log[g]
           /\ lang[h] = lang[g]
           /\ outcome[h] = outcome[g]
           /\ sent[h] = sent[g]

\* C18 amended: they make the same sequence of calls with the same target
\* language, take the same post decision and post replies with the same
\* anchor, body and footer; the pretext of each names its own emoji.
C18_SameButPretext ==
    \A h, g \in Handlers :
        (DirectAndFlag(h, g) /\ pc[h] = "done" /\ pc[g] = "done" /\ SameAnswers(h, g))
        => /\ log[h] = log[g]
           /\ lang[h] = lang[g]
           /\ outcome[h] = outcome[g]
           /\ SameReplyButPretext(h, g)
           /\ \A i \in 1..Len(sent[h].attachments) :
                  Truthy(sent[h].attachments[i].text) =>
                      /\ sent[h].attachments[i].pretext[2] = req[h].event.reaction
                      /\ sent[g].attachments[i].pretext[2] = req[g].event.reaction

\* "fr" and "flag-fr" were both handled on the same thread and both posted
C18_Witness ==
    \E h, g \in Handlers :
        /\ DirectAndFlag(h, g)
        /\ SameAnswers(h, g)
        /\ outcome[h] = "posted" /\ outcome[g] = "posted"
        /\ sent[h].attachments[1].text = "Bonjour"

\* the ways a handling ends
Outcomes ==
    {"challenge", "rejected", "ignored", "threw", "aborted", "duplicate",
     "posted", "postfailed"}

\* the handling of h has ended
Terminated(h) == pc[h] = "done" /\ outcome[h] \in Outcomes

\* C19: provided the delay elapses and every remote call returns or fails,
\* the handling of every request that arrived terminates in one of its
\* outcomes, and it makes no call twice.
C19_Terminates ==
    \A h \in Handlers :
        /\ [](calls[h].fetch <= 1 /\ calls[h].translate <= 1 /\ calls[h].post <= 1)
        /\ (pc[h] # "idle") ~> Terminated(h)

\* a handling that went through every suspension has ended
C19_Witness ==
    \E h \in Handlers :
        /\ Terminated(h)
        /\ outcome[h] = "posted"
        /\ calls[h] = [fetch |-> 1, translate |-> 1, post |-> 1]

====
